---- MODULE Spec2Model ----
(***************************************************************************)
(* Distributed hierarchical truncated SVD (heat/core/linalg/svdtools.py).  *)
(*                                                                         *)
(* The matrix A is column-split over P processes.  A local factor is a     *)
(* sequence of columns; a column <<d, w>> is a multiple of the basis       *)
(* vector e_d with squared 2-norm w (<<0, 0>> is a zero column, <<0, 1>>   *)
(* a unit vector of unspecified direction).  For such matrices the thin    *)
(* SVD is exact in integers: the squared singular values are the           *)
(* per-direction sums of the column weights, sorted in descending order    *)
(* and padded with zeros to min(m, c) entries.  All norms are kept         *)
(* squared, a tolerance is a fraction num/den of squared quantities, and   *)
(* floating-point rounding is not modelled.                                *)
(***************************************************************************)
EXTENDS Integers, Sequences, FiniteSets, TLC

\* ------------------------------------------------------------------ bounds
MaxP == 3
MaxLevel == 3
NRows == 4
MaxLocalSize == 6
MaxRankArg == 3
MaxShiftArg == 2
MaxMergeArg == 8

\* --------------------------------------------------------------- constants
\* noiselevel ** 2 in the unit of the column weights: a squared singular
\* value of 1 lies below the noise level, 2 and more lie at or above it
NoiseSq == 2

None == -1
Unset == -1

\* ----------------------------------------------------------------- helpers
Min2(a, b) == IF a <= b THEN a ELSE b

Max2(a, b) == IF a >= b THEN a ELSE b

RECURSIVE SumW(_)
SumW(s) == IF s = <<>> THEN 0 ELSE Head(s)[2] + SumW(Tail(s))

RECURSIVE SumInts(_)
SumInts(s) == IF s = <<>> THEN 0 ELSE Head(s) + SumInts(Tail(s))

RECURSIVE Flatten(_)
Flatten(ss) == IF ss = <<>> THEN <<>> ELSE Head(ss) \o Flatten(Tail(ss))

\* Python's s[start:stop] for a sequence s (negative indices count from the end)
PyIndex(i, n) == IF i < 0 THEN Max2(i + n, 0) ELSE Min2(i, n)

PySlice(s, start, stop) ==
    SubSeq(s, PyIndex(start, Len(s)) + 1, PyIndex(stop, Len(s)))

\* torch.linalg.svd(M, full_matrices=False): the singular pairs <<d, sigma^2>>
\* in descending order of sigma^2
DirWeight(M, d) ==
    LET RECURSIVE Acc(_)
        Acc(i) == IF i = 0 THEN 0
                  ELSE (IF M[i][1] = d THEN M[i][2] ELSE 0) + Acc(i - 1)
    IN Acc(Len(M))

RECURSIVE SortDesc(_, _)
SortDesc(S, M) ==
    IF S = {} THEN <<>>
    ELSE LET best == CHOOSE d \in S : \A e \in S :
                        \/ DirWeight(M, d) > DirWeight(M, e)
                        \/ DirWeight(M, d) = DirWeight(M, e) /\ d <= e
         IN <<<<best, DirWeight(M, best)>>>> \o SortDesc(S \ {best}, M)

svd(M) ==
    LET dirs == {M[i][1] : i \in {j \in 1..Len(M) : M[j][2] > 0}}
        n    == Min2(NRows, Len(M))
        nz   == SortDesc(dirs, M)
    IN nz \o [i \in 1..(n - Len(nz)) |-> <<0, 0>>]

\* U_loc @ diag(sigma_loc): column i of U scaled by sigma_i
ScaleBySigma(U, sigma) == [i \in 1..Len(U) |-> <<U[i][1], U[i][2] * sigma[i][2]>>]

\* the orthonormal columns of the U factor belonging to the singular pairs s
UnitCols(s) == [i \in 1..Len(s) |-> <<s[i][1], 1>>]

\* ------------------------------------------------- local truncation (4.1)
\* torch.norm(sigma_loc[k:]) ** 2
TailSq(sigma, k) == SumW(PySlice(sigma, k, Len(sigma)))

NoLoctol == <<None, 1>>

\* the ranks k in range(sigma_loc.shape[0] + 1) whose tail lies below
\* loctol ** 2, where loctol ** 2 = loctol[1] / loctol[2]
TolRanks(sigma, loctol) ==
    {k \in 0..Len(sigma) : TailSq(sigma, k) * loctol[2] < loctol[1]}

SetMin(S) == CHOOSE x \in S : \A y \in S : x <= y

SetMax(S) == CHOOSE x \in S : \A y \in S : x >= y

\* shifted_rank without the safety shift
shifted_rankNoShift(n, base_rank, shift) == Min2(n, base_rank)

\* loc_trunc_rank = min(sigma_loc.shape[0], loc_trunc_rank + safetyshift)
\* (line 496) for n = sigma_loc.shape[0]
shifted_rank(n, base_rank, shift) == Min2(n, base_rank + shift)

\* degenerate_result without the norm of the discarded singular values
degenerate_resultNoError(s) ==
    [raised |-> FALSE,
     U |-> <<<<0, 0>>>>,
     sigma |-> <<<<0, 0>>>>,
     err |-> 0,
     printed |-> FALSE]

\* the else branch of "if len(no_noise_idx) != 0" (lines 499-503): a zero
\* factor of one column, sigma = [0] and the squared norm of all singular
\* values s
degenerate_result(s) ==
    [raised |-> FALSE,
     U |-> <<<<0, 0>>>>,
     sigma |-> <<<<0, 0>>>>,
     err |-> SumW(s),
     printed |-> FALSE]

\* compute_local_truncated_svd(level, proc_id, U_loc, maxrank, loctol,
\* safetyshift): the truncated factor U, its singular pairs, the squared
\* truncation error, whether min() of an empty tensor raised, and whether the
\* loss-of-precision notice was printed
compute_local_truncated_svd(M, mr, loctol, shift) ==
    LET sigma_loc      == svd(M)
        no_noise_idx   == {i \in 1..Len(sigma_loc) : sigma_loc[i][2] >= NoiseSq}
        cut_noise_rank == SetMax(no_noise_idx)
        tol_ranks      == TolRanks(sigma_loc, loctol)
        ideal_trunc_rank == SetMin(tol_ranks)
        base_rank == IF loctol = NoLoctol THEN Min2(mr, cut_noise_rank)
                     ELSE Min2(mr, Min2(ideal_trunc_rank, cut_noise_rank))
        loc_trunc_rank == shifted_rank(Len(sigma_loc), base_rank, shift)
        kept == PySlice(sigma_loc, 0, loc_trunc_rank)
    IN IF no_noise_idx # {}
       THEN IF loctol # NoLoctol /\ tol_ranks = {}
            THEN [raised |-> TRUE, U |-> <<>>, sigma |-> <<>>, err |-> 0,
                  printed |-> FALSE]
            ELSE [raised |-> FALSE,
                  U |-> UnitCols(kept),
                  sigma |-> kept,
                  err |-> SumW(PySlice(sigma_loc, loc_trunc_rank - shift,
                                       Len(sigma_loc))),
                  printed |-> loctol # NoLoctol /\ base_rank # ideal_trunc_rank]
       ELSE degenerate_result(sigma_loc)

\* ------------------------------------------------------ tree sweep (4.2)
\* SweepStep with the count test one child late
SweepStepCountLate(st, current_idx, dims, mmd, nom) ==
    IF st.used_budget + dims[current_idx] > mmd
       \/ (nom # None /\ st.counter > nom)
    THEN [future_nodes |-> Append(st.future_nodes, current_idx),
          send_to |-> st.send_to,
          current_future_node |-> current_idx,
          used_budget |-> dims[current_idx],
          counter |-> 1]
    ELSE [future_nodes |-> st.future_nodes,
          send_to |-> IF st.used_budget # 0
                      THEN [st.send_to EXCEPT ![current_idx] = st.current_future_node]
                      ELSE st.send_to,
          current_future_node |-> st.current_future_node,
          used_budget |-> st.used_budget + dims[current_idx],
          counter |-> st.counter + 1]

\* SweepStep with a new parent put in front of the future nodes
SweepStepPrepend(st, current_idx, dims, mmd, nom) ==
    IF st.used_budget + dims[current_idx] > mmd \/ st.counter = nom
    THEN [future_nodes |-> <<current_idx>> \o st.future_nodes,
          send_to |-> st.send_to,
          current_future_node |-> current_idx,
          used_budget |-> dims[current_idx],
          counter |-> 1]
    ELSE [future_nodes |-> st.future_nodes,
          send_to |-> IF st.used_budget # 0
                      THEN [st.send_to EXCEPT ![current_idx] = st.current_future_node]
                      ELSE st.send_to,
          current_future_node |-> st.current_future_node,
          used_budget |-> st.used_budget + dims[current_idx],
          counter |-> st.counter + 1]

\* one pass of the body of "while k < len(active_nodes)"
SweepStep(st, current_idx, dims, mmd, nom) ==
    IF st.used_budget + dims[current_idx] > mmd \/ st.counter = nom
    THEN [future_nodes |-> Append(st.future_nodes, current_idx),
          send_to |-> st.send_to,
          current_future_node |-> current_idx,
          used_budget |-> dims[current_idx],
          counter |-> 1]
    ELSE [future_nodes |-> st.future_nodes,
          send_to |-> IF st.used_budget # 0
                      THEN [st.send_to EXCEPT ![current_idx] = st.current_future_node]
                      ELSE st.send_to,
          current_future_node |-> st.current_future_node,
          used_budget |-> st.used_budget + dims[current_idx],
          counter |-> st.counter + 1]

RECURSIVE Sweep(_, _, _, _, _)
Sweep(k, active, dims, mmd, nom) ==
    IF k = 0
    THEN [future_nodes |-> <<0>>,
          send_to |-> [r \in DOMAIN dims |-> Unset],
          current_future_node |-> 0,
          used_budget |-> 0,
          counter |-> 0]
    ELSE SweepStep(Sweep(k - 1, active, dims, mmd, nom), active[k], dims, mmd, nom)

RECURSIVE Ascending(_)
Ascending(S) == IF S = {} THEN <<>>
                ELSE <<SetMin(S)>> \o Ascending(S \ {SetMin(S)})

SeqElems(s) == {s[i] : i \in 1..Len(s)}

RECURSIVE Descending(_)
Descending(S) == IF S = {} THEN <<>>
                 ELSE <<SetMax(S)>> \o Descending(S \ {SetMax(S)})

\* RecvFrom with the children of a future node in descending order
RecvFromDescending(future, sendto) ==
    [i \in DOMAIN sendto |->
        IF i \in SeqElems(future)
        THEN Descending({k \in DOMAIN sendto : sendto[k] = i})
        ELSE <<>>]

\* recv_from[i] = [k for k in range(no_procs) if send_to[k] == i] for the
\* future nodes i, [] for every other rank
RecvFrom(future, sendto) ==
    [i \in DOMAIN sendto |->
        IF i \in SeqElems(future)
        THEN Ascending({k \in DOMAIN sendto : sendto[k] = i})
        ELSE <<>>]

\* ------------------------------------------------------------ gates (4.6)
NoRtol == <<None, 1>>

\* hsvd_rank without the test of maxmergedim
hsvd_rankNoGuard(A_local_size, c) ==
    [raised |-> FALSE,
     maxrank |-> c.maxrank,
     maxmergedim |->
         IF c.maxmergedim = None
         THEN IF A_local_size >= 2 * (c.maxrank + c.safetyshift)
              THEN A_local_size
              ELSE 2 * (c.maxrank + c.safetyshift) + 1
         ELSE c.maxmergedim,
     rtol |-> NoRtol,
     safetyshift |-> c.safetyshift,
     no_of_merges |-> None]

\* hsvd_rank after the type checks: raise, or the arguments passed to hsvd
hsvd_rank(A_local_size, c) ==
    IF c.maxmergedim # None
       /\ c.maxmergedim < 2 * (c.maxrank + c.safetyshift) + 1
    THEN [raised |-> TRUE, maxrank |-> c.maxrank, maxmergedim |-> c.maxmergedim,
          rtol |-> NoRtol, safetyshift |-> c.safetyshift, no_of_merges |-> None]
    ELSE [raised |-> FALSE,
          maxrank |-> c.maxrank,
          maxmergedim |->
              IF c.maxmergedim = None
              THEN IF A_local_size >= 2 * (c.maxrank + c.safetyshift)
                   THEN A_local_size
                   ELSE 2 * (c.maxrank + c.safetyshift) + 1
              ELSE c.maxmergedim,
          rtol |-> NoRtol,
          safetyshift |-> c.safetyshift,
          no_of_merges |-> None]

\* hsvd_rtol with the defaults of the nothing-set case taken from the local
\* width instead of A.shape[1]
hsvd_rtolLocalDefaults(A_local_size, ncols, c) ==
    LET mr1 == IF c.maxmergedim # None /\ c.maxrank = None
               THEN (A_local_size \div 2) - c.safetyshift
               ELSE c.maxrank
        raise1 == c.maxmergedim # None /\ c.maxrank = None /\ mr1 <= 0
        mm2 == IF c.maxmergedim = None /\ mr1 # None
               THEN IF A_local_size >= 2 * (mr1 + c.safetyshift)
                    THEN A_local_size
                    ELSE 2 * (mr1 + c.safetyshift) + 1
               ELSE c.maxmergedim
        raise2 == mm2 # None /\ mr1 # None
                  /\ mm2 < 2 * (mr1 + c.safetyshift) + 1
        none3 == mm2 = None /\ mr1 = None
        nom3 == IF none3 /\ c.no_of_merges = None THEN 2 ELSE c.no_of_merges
        mm3 == IF none3 THEN 2 * (A_local_size + c.safetyshift) + 1 ELSE mm2
        mr3 == IF none3 THEN A_local_size ELSE mr1
        raise3 == nom3 # None /\ nom3 < 2
    IN [raised |-> raise1 \/ raise2 \/ raise3,
        maxrank |-> mr3, maxmergedim |-> mm3, rtol |-> c.rtol,
        safetyshift |-> c.safetyshift, no_of_merges |-> nom3]

\* hsvd_rtol after the type checks; ncols is A.shape[1]
hsvd_rtol(A_local_size, ncols, c) ==
    LET mr1 == IF c.maxmergedim # None /\ c.maxrank = None
               THEN (A_local_size \div 2) - c.safetyshift
               ELSE c.maxrank
        raise1 == c.maxmergedim # None /\ c.maxrank = None /\ mr1 <= 0
        mm2 == IF c.maxmergedim = None /\ mr1 # None
               THEN IF A_local_size >= 2 * (mr1 + c.safetyshift)
                    THEN A_local_size
                    ELSE 2 * (mr1 + c.safetyshift) + 1
               ELSE c.maxmergedim
        raise2 == mm2 # None /\ mr1 # None
                  /\ mm2 < 2 * (mr1 + c.safetyshift) + 1
        none3 == mm2 = None /\ mr1 = None
        nom3 == IF none3 /\ c.no_of_merges = None THEN 2 ELSE c.no_of_merges
        mm3 == IF none3 THEN 2 * (ncols + c.safetyshift) + 1 ELSE mm2
        mr3 == IF none3 THEN ncols ELSE mr1
        raise3 == nom3 # None /\ nom3 < 2
    IN [raised |-> raise1 \/ raise2 \/ raise3,
        maxrank |-> mr3, maxmergedim |-> mm3, rtol |-> c.rtol,
        safetyshift |-> c.safetyshift, no_of_merges |-> nom3]

\* hsvd with the gates' test of maxmergedim
hsvd_directGuarded(c) ==
    [raised |-> c.maxmergedim < 2 * (c.maxrank + c.safetyshift) + 1,
     maxrank |-> c.maxrank, maxmergedim |-> c.maxmergedim,
     rtol |-> c.rtol, safetyshift |-> c.safetyshift,
     no_of_merges |-> c.no_of_merges]

\* a direct call of the expert routine hsvd: the arguments as given
hsvd_direct(c) ==
    [raised |-> FALSE, maxrank |-> c.maxrank, maxmergedim |-> c.maxmergedim,
     rtol |-> c.rtol, safetyshift |-> c.safetyshift,
     no_of_merges |-> c.no_of_merges]

\* ------------------------------------------------------------------ state
VARIABLES
    A,                \* the local column blocks A_p, p in 0..P-1 (split = 1)
    call,             \* the entry point called on every process, with its arguments
    split,            \* A.split of the matrix passed in: 0 or 1
    full,             \* the argument full
    silent,           \* the argument silent
    ret,              \* per process: the tuple hsvd returned, <<>> before it returns
    pc,               \* position of each process
    raised,           \* the error a process raised: "none", "gate", "svd", "send"
    maxrank,          \* per process: hsvd's arguments ...
    maxmergedim,
    no_of_merges,
    safetyshift,      \* ... safetyshift is set to 0 for the final truncation
    loctol,           \* per process: loctol ** 2 as <<num, den>>, or NoLoctol
    level,            \* per process: number of truncation levels done
    iter,             \* per process: number of passes of "while not finished" begun
    U_loc,            \* per process: the local factor
    sigma_loc,        \* per process: singular pairs of the last truncation
    err_squared_loc,  \* per process: accumulated squared truncation error
    U_list,           \* per process: [U_loc] + receive buffers
    err_list,         \* per process: [err_squared_loc] + receive buffers
    rk,               \* per process: index k of the receive loop
    dims_global,      \* per process: the published widths
    active_nodes,     \* per process
    future_nodes,     \* per process
    send_to,          \* per process
    recv_from,        \* per process
    finished,         \* per process
    bc,               \* bc[k]: the values broadcast with root k, oldest first
    chan,             \* chan[<<src, dst>>]: point-to-point messages in flight,
                      \* each with its tag and data and, as history, its kind,
                      \* the pass of the level loop it was sent in and the
                      \* ranks its sender's factor covers
    final,            \* the result broadcast with root 0, <<>> until rank 0 posts it
    err_returned,     \* history: sum of the e^2 returned by all truncations
    no_truncations,   \* history: number of truncations performed
    stdout,           \* per process: the kinds of the lines printed, in order
    trunc_log,        \* history: one record per truncation that returned
    sent,             \* history, per process: the passes in which it sent its
                      \* factor and error to a parent
    covers            \* history, per process: the ranks whose original blocks
                      \* went into the factor and receive buffers it holds

vars == <<A, call, split, full, silent, ret, stdout, trunc_log, sent, covers, pc, raised, maxrank, maxmergedim, no_of_merges, safetyshift,
          loctol, level, iter, U_loc, sigma_loc, err_squared_loc, U_list,
          err_list, rk, dims_global, active_nodes, future_nodes, send_to,
          recv_from, finished, bc, chan, final, err_returned, no_truncations>>

Procs == DOMAIN A

no_procs == Cardinality(Procs)

\* A.lshape_map[:, 1]: the local column counts
lshape_map == [p \in Procs |-> Len(A[p])]

A_local_size == SetMax({lshape_map[p] : p \in Procs})

RECURSIVE SumOver(_, _)
SumOver(f, S) == IF S = {} THEN 0
                 ELSE LET x == CHOOSE y \in S : TRUE
                      IN f[x] + SumOver(f, S \ {x})

\* A.shape[1]
ncols == SumOver(lshape_map, Procs)

\* vector_norm(A) ** 2
AnormSq == SumOver([p \in Procs |-> SumW(A[p])], Procs)

\* (Anorm * rtol / sqrt(2 * no_procs - 1)) ** 2 for rtol ** 2 = rtol[1] / rtol[2]
Loctol(rtol) ==
    IF rtol = NoRtol THEN NoLoctol
    ELSE <<AnormSq * rtol[1], rtol[2] * (2 * no_procs - 1)>>

ZeroCols(n) == [i \in 1..n |-> <<0, 0>>]

\* ------------------------------------------------- postprocessing (428-445)
\* transposeflag: A.split == 0, and then hsvd works on A.T, whose local
\* column blocks are the A_p of the model
transposeflag == split = 0

\* the columns of the whole matrix hsvd works on, in the order of the ranks
A_columns == Flatten([i \in 1..no_procs |-> A[i - 1]])

\* vector_norm(matmul(A.T, U), axis=0) ** 2: entry j is the squared norm of
\* A.T @ u_j
sigma_of(U) ==
    [j \in 1..Len(U) |->
        IF U[j][2] = 0 THEN 0 ELSE DirWeight(A_columns, U[j][1]) * U[j][2]]

\* the result of a division 0 / 0
NaN == -2

\* matmul(A.T, U), and matmul(V, diag(1 / sigma)) when vector_norm(sigma) > 0:
\* column j is <<den, sq_1, ..., sq_n>>, the squared entries of A.T @ u_j, one
\* for every column of A, after their common denominator den
V_of(U) ==
    LET sigma == sigma_of(U)
        norm  == SumInts(sigma) > 0
    IN [j \in 1..Len(U) |->
          << IF norm THEN (IF sigma[j] = 0 THEN NaN ELSE sigma[j]) ELSE 1 >>
          \o [i \in 1..Len(A_columns) |->
                 IF U[j][2] # 0 /\ A_columns[i][1] = U[j][1]
                 THEN A_columns[i][2] * U[j][2] ELSE 0]]

NotReturned == [value |-> <<>>, computed_V |-> FALSE]

\* hsvd without the test "transposeflag and full": the roles are not swapped
hsvd_returnNoSwap(tf, fl, U, err) ==
    LET rel_error_estimate == <<err, AnormSq>>
    IN IF tf \/ fl
       THEN [value |-> IF tf /\ ~ fl
                       THEN <<V_of(U), rel_error_estimate>>
                       ELSE <<U, sigma_of(U), V_of(U), rel_error_estimate>>,
             computed_V |-> TRUE]
       ELSE [value |-> <<U, rel_error_estimate>>, computed_V |-> FALSE]

\* the postprocessing and the return statements of hsvd; rel_error_estimate
\* ** 2 is the fraction err / Anorm ** 2
hsvd_return(tf, fl, U, err) ==
    LET rel_error_estimate == <<err, AnormSq>>
    IN IF tf \/ fl
       THEN [value |-> IF tf /\ fl
                       THEN <<V_of(U), sigma_of(U), U, rel_error_estimate>>
                       ELSE IF tf /\ ~ fl
                       THEN <<V_of(U), rel_error_estimate>>
                       ELSE <<U, sigma_of(U), V_of(U), rel_error_estimate>>,
             computed_V |-> TRUE]
       ELSE [value |-> <<U, rel_error_estimate>>, computed_V |-> FALSE]

\* ------------------------------------------------------------------ inputs
\* local blocks: two strong directions, one weak column, one column below the
\* noise level
BlockSet == { << <<1, 16>>, <<2, 4>> >>,
              << <<1, 2>> >>,
              << <<3, 1>> >> }

\* rtol ** 2 as <<num, den>>
RtolSet == { <<1, 4>> }

RankCalls ==
    {[entry |-> "hsvd_rank", maxrank |-> x[1], maxmergedim |-> x[2],
      rtol |-> NoRtol, safetyshift |-> x[3], no_of_merges |-> None] :
        x \in {<<1, None, 0>>, <<1, None, 1>>, <<1, 3, 0>>, <<1, 3, 1>>,
               <<2, None, 0>>}}

RtolCalls ==
    {[entry |-> "hsvd_rtol", maxrank |-> rm[1], maxmergedim |-> rm[2],
      rtol |-> t, safetyshift |-> s, no_of_merges |-> n] :
        rm \in {<<None, None>>, <<None, 3>>, <<2, 3>>}, t \in RtolSet,
        s \in 0..1, n \in {None, 3}}

HsvdCalls ==
    {[entry |-> "hsvd", maxrank |-> r, maxmergedim |-> 1, rtol |-> NoRtol,
      safetyshift |-> 0, no_of_merges |-> None] :
        r \in 1..2}

Init ==
    /\ \E P \in 1..MaxP : A \in [0..(P - 1) -> BlockSet]
    /\ call \in RankCalls \cup RtolCalls \cup HsvdCalls
    /\ split = 1
    /\ full = FALSE
    /\ silent = TRUE
    /\ ret = [p \in Procs |-> NotReturned]
    /\ stdout = [p \in Procs |-> <<>>]
    /\ trunc_log = {}
    /\ sent = [p \in Procs |-> <<>>]
    /\ covers = [p \in Procs |-> <<>>]
    /\ pc = [p \in Procs |-> "call"]
    /\ raised = [p \in Procs |-> "none"]
    /\ maxrank = [p \in Procs |-> 0]
    /\ maxmergedim = [p \in Procs |-> 0]
    /\ no_of_merges = [p \in Procs |-> None]
    /\ safetyshift = [p \in Procs |-> 0]
    /\ loctol = [p \in Procs |-> NoLoctol]
    /\ level = [p \in Procs |-> 0]
    /\ iter = [p \in Procs |-> 0]
    /\ U_loc = [p \in Procs |-> <<>>]
    /\ sigma_loc = [p \in Procs |-> <<>>]
    /\ err_squared_loc = [p \in Procs |-> 0]
    /\ U_list = [p \in Procs |-> <<>>]
    /\ err_list = [p \in Procs |-> <<>>]
    /\ rk = [p \in Procs |-> 0]
    /\ dims_global = [p \in Procs |-> [k \in Procs |-> 0]]
    /\ active_nodes = [p \in Procs |-> <<>>]
    /\ future_nodes = [p \in Procs |-> <<>>]
    /\ send_to = [p \in Procs |-> [k \in Procs |-> Unset]]
    /\ recv_from = [p \in Procs |-> [k \in Procs |-> <<>>]]
    /\ finished = [p \in Procs |-> FALSE]
    /\ bc = [k \in Procs |-> <<>>]
    /\ chan = [e \in Procs \X Procs |-> <<>>]
    /\ final = <<>>
    /\ err_returned = 0
    /\ no_truncations = 0

\* ---------------------------------------------------------------- output
\* the line "hSVD level ..." that rank 0 prints unless silent (lines 309-314,
\* 384-389)
level_line(p) == IF p = 0 /\ ~ silent THEN <<"level">> ELSE <<>>

\* the line "current ranks: ..." that rank 0 prints unless silent (lines
\* 329-333)
ranks_line(p) == IF p = 0 /\ ~ silent THEN <<"ranks">> ELSE <<>>

\* the notice "Loss of desired precision (rtol) very likely!" of the
\* truncation t (lines 490-494)
notice(t) == IF t.printed THEN <<"notice">> ELSE <<>>

\* the record kept of the truncation t of the matrix M on process p
LogEntry(p, lvl, pass, shift, M, t, last) ==
    [proc |-> p, level |-> lvl, pass |-> pass, shift |-> shift,
     cin |-> Len(M), cout |-> Len(t.U), err |-> t.err,
     printed |-> t.printed, last |-> last]

\* step_safetyshift without "if len(future_nodes) == 1: safetyshift = 0"
step_safetyshiftKept(fut, shift) == shift

\* the safetyshift of the truncation of a pass with future nodes fut (lines
\* 392-393)
step_safetyshift(fut, shift) == IF Len(fut) = 1 THEN 0 ELSE shift

\* ---------------------------------------------------------------- actions
\* the entry point up to its call of hsvd (lines 78-112, 181-233)
GateResult ==
    CASE call.entry = "hsvd_rank" -> hsvd_rank(A_local_size, call)
      [] call.entry = "hsvd_rtol" -> hsvd_rtol(A_local_size, ncols, call)
      [] OTHER -> hsvd_direct(call)

Gate(p) ==
    /\ pc[p] = "call"
    /\ LET g == GateResult IN
        IF g.raised
        THEN /\ pc' = [pc EXCEPT ![p] = "error"]
             /\ raised' = [raised EXCEPT ![p] = "gate"]
             /\ UNCHANGED <<maxrank, maxmergedim, no_of_merges, safetyshift>>
        ELSE /\ pc' = [pc EXCEPT ![p] = "hsvd"]
             /\ maxrank' = [maxrank EXCEPT ![p] = g.maxrank]
             /\ maxmergedim' = [maxmergedim EXCEPT ![p] = g.maxmergedim]
             /\ no_of_merges' = [no_of_merges EXCEPT ![p] = g.no_of_merges]
             /\ safetyshift' = [safetyshift EXCEPT ![p] = g.safetyshift]
             /\ UNCHANGED raised
    /\ UNCHANGED <<A, call, split, full, silent, ret, loctol, level, iter, U_loc, sigma_loc,
                   err_squared_loc, U_list, err_list, rk, dims_global,
                   active_nodes, future_nodes, send_to, recv_from, finished,
                   bc, chan, final, err_returned, no_truncations>>
    /\ UNCHANGED <<stdout, trunc_log, sent, covers>>

\* hsvd up to the level loop (lines 291-321): local tolerance, level-0 SVD
Level0(p) ==
    /\ pc[p] = "hsvd"
    /\ LET lt == Loctol(call.rtol)
           t  == compute_local_truncated_svd(A[p], maxrank[p], lt, safetyshift[p])
       IN
        /\ loctol' = [loctol EXCEPT ![p] = lt]
        /\ stdout' = [stdout EXCEPT ![p] = @ \o level_line(p) \o notice(t)]
        /\ IF t.raised
           THEN /\ pc' = [pc EXCEPT ![p] = "error"]
                /\ raised' = [raised EXCEPT ![p] = "svd"]
                /\ UNCHANGED <<U_loc, sigma_loc, err_squared_loc, active_nodes,
                               err_returned, no_truncations, trunc_log, covers>>
           ELSE /\ pc' = [pc EXCEPT ![p] = "bcast"]
                /\ U_loc' = [U_loc EXCEPT ![p] = ScaleBySigma(t.U, t.sigma)]
                /\ sigma_loc' = [sigma_loc EXCEPT ![p] = t.sigma]
                /\ err_squared_loc' = [err_squared_loc EXCEPT ![p] = t.err]
                /\ active_nodes' = [active_nodes EXCEPT
                                       ![p] = [i \in 1..no_procs |-> i - 1]]
                /\ err_returned' = err_returned + t.err
                /\ no_truncations' = no_truncations + 1
                /\ trunc_log' = trunc_log \cup
                      {LogEntry(p, 0, 0, safetyshift[p], A[p], t, FALSE)}
                /\ covers' = [covers EXCEPT ![p] = <<p>>]
                /\ UNCHANGED raised
    /\ UNCHANGED <<A, call, split, full, silent, ret, maxrank, maxmergedim, no_of_merges, safetyshift,
                   level, iter, U_list, err_list, rk, dims_global,
                   future_nodes, send_to, recv_from, finished, bc, chan, final>>
    /\ UNCHANGED <<sent>>

\* the end of one pass of "while not finished" (lines 408-411); a pass is
\* begun only while fewer than MaxLevel passes have been made
AfterPass(p, fut, passes) ==
    IF Len(fut) = 1 THEN "final"
    ELSE IF passes >= MaxLevel THEN "capped" ELSE "bcast"

\* EndPass without "active_nodes = future_nodes"
EndPassKeepActive(p, fut) ==
    /\ finished' = [finished EXCEPT ![p] = (Len(fut) = 1)]
    /\ UNCHANGED active_nodes

\* "if len(future_nodes) == 1: finished = True; else: active_nodes =
\* future_nodes" (lines 408-411)
EndPass(p, fut) ==
    /\ finished' = [finished EXCEPT ![p] = (Len(fut) = 1)]
    /\ active_nodes' = [active_nodes EXCEPT
                           ![p] = IF Len(fut) = 1 THEN @ ELSE fut]

\* the width broadcasts "for k in range(no_procs): bcast(root=k)" (lines
\* 324-327) up to and including the one rooted at p: p has received the
\* widths of the lower ranks and posts its own
BcastDims(p) ==
    /\ pc[p] = "bcast"
    /\ \A k \in Procs : k < p => Len(bc[k]) > iter[p]
    /\ bc' = [bc EXCEPT ![p] = Append(@, Len(U_loc[p]))]
    /\ pc' = [pc EXCEPT ![p] = "collect"]
    /\ UNCHANGED <<A, call, split, full, silent, ret, raised, maxrank, maxmergedim, no_of_merges,
                   safetyshift, loctol, level, iter, U_loc, sigma_loc,
                   err_squared_loc, U_list, err_list, rk, dims_global,
                   active_nodes, future_nodes, send_to, recv_from, finished,
                   chan, final, err_returned, no_truncations>>
    /\ UNCHANGED <<stdout, trunc_log, sent, covers>>

\* the remaining width broadcasts, then the sweep that determines the future
\* nodes and the allocation of the receive buffers (lines 327-372)
CollectDims(p) ==
    /\ pc[p] = "collect"
    /\ \A k \in Procs : Len(bc[k]) > iter[p]
    /\ LET dims == [k \in Procs |-> bc[k][iter[p] + 1]]
           plan == Sweep(Len(active_nodes[p]), active_nodes[p], dims,
                         maxmergedim[p], no_of_merges[p])
           fut  == plan.future_nodes
           rf   == RecvFrom(fut, plan.send_to)
       IN
        /\ dims_global' = [dims_global EXCEPT ![p] = dims]
        /\ future_nodes' = [future_nodes EXCEPT ![p] = fut]
        /\ send_to' = [send_to EXCEPT ![p] = plan.send_to]
        /\ recv_from' = [recv_from EXCEPT ![p] = rf]
        /\ iter' = [iter EXCEPT ![p] = @ + 1]
        /\ rk' = [rk EXCEPT ![p] = 0]
        /\ IF p \in SeqElems(fut)
           THEN /\ U_list' = [U_list EXCEPT ![p] =
                      <<U_loc[p]>> \o [i \in 1..Len(rf[p]) |-> ZeroCols(dims[rf[p][i]])]]
                /\ err_list' = [err_list EXCEPT ![p] =
                      <<err_squared_loc[p]>> \o [i \in 1..Len(rf[p]) |-> 0]]
                /\ pc' = [pc EXCEPT ![p] = IF rf[p] = <<>> THEN "merge" ELSE "recv_U"]
                /\ UNCHANGED <<finished, active_nodes>>
           ELSE IF p \in SeqElems(active_nodes[p])
           THEN /\ pc' = [pc EXCEPT ![p] = "send_U"]
                /\ UNCHANGED <<U_list, err_list, finished, active_nodes>>
           ELSE /\ pc' = [pc EXCEPT ![p] = AfterPass(p, fut, iter[p] + 1)]
                /\ EndPass(p, fut)
                /\ UNCHANGED <<U_list, err_list>>
    /\ UNCHANGED <<A, call, split, full, silent, ret, raised, maxrank, maxmergedim, no_of_merges,
                   safetyshift, loctol, level, U_loc, sigma_loc,
                   err_squared_loc, bc, chan, final, err_returned,
                   no_truncations>>
    /\ stdout' = [stdout EXCEPT ![p] = @ \o ranks_line(p)]
    /\ UNCHANGED <<trunc_log, sent, covers>>

\* tag=rank of the factor messages (lines 374, 405)
FactorTag(c) == c

\* ErrorTag without the offset 2 * no_procs
ErrorTagNoOffset(c) == c

\* tag=2 * no_procs + rank of the error messages (lines 378, 406)
ErrorTag(c) == 2 * no_procs + c

\* the oldest message of queue q that carries tag t (0 if there is none)
FirstWithTag(q, t) ==
    LET hits == {i \in 1..Len(q) : q[i].tag = t}
    IN IF hits = {} THEN 0 ELSE SetMin(hits)

RemoveAt(q, i) == SubSeq(q, 1, i - 1) \o SubSeq(q, i + 1, Len(q))

\* A.comm.Recv(U_loc[k + 1], recv_from[rank][k], tag=recv_from[rank][k])
RecvU(p) ==
    /\ pc[p] = "recv_U"
    /\ LET src == recv_from[p][p][rk[p] + 1]
           q   == chan[<<src, p>>]
           i   == FirstWithTag(q, FactorTag(src))
       IN
        /\ i # 0
        /\ U_list' = [U_list EXCEPT ![p][rk[p] + 2] = q[i].data]
        /\ chan' = [chan EXCEPT ![<<src, p>>] = RemoveAt(q, i)]
    /\ pc' = [pc EXCEPT ![p] = "recv_err"]
    /\ UNCHANGED <<A, call, split, full, silent, ret, raised, maxrank, maxmergedim, no_of_merges,
                   safetyshift, loctol, level, iter, U_loc, sigma_loc,
                   err_squared_loc, err_list, rk, dims_global, active_nodes,
                   future_nodes, send_to, recv_from, finished, bc, final,
                   err_returned, no_truncations>>
    /\ covers' = [covers EXCEPT ![p] =
                      @ \o chan[<<recv_from[p][p][rk[p] + 1], p>>][
                               FirstWithTag(chan[<<recv_from[p][p][rk[p] + 1], p>>],
                                            FactorTag(recv_from[p][p][rk[p] + 1]))].covers]
    /\ UNCHANGED <<stdout, trunc_log, sent>>

\* A.comm.Recv(err_squared_loc[k + 1], recv_from[rank][k],
\*             tag=2 * no_procs + recv_from[rank][k])
RecvErr(p) ==
    /\ pc[p] = "recv_err"
    /\ LET src == recv_from[p][p][rk[p] + 1]
           q   == chan[<<src, p>>]
           i   == FirstWithTag(q, ErrorTag(src))
       IN
        /\ i # 0
        /\ err_list' = [err_list EXCEPT ![p][rk[p] + 2] = q[i].data]
        /\ chan' = [chan EXCEPT ![<<src, p>>] = RemoveAt(q, i)]
    /\ rk' = [rk EXCEPT ![p] = @ + 1]
    /\ pc' = [pc EXCEPT ![p] = IF rk[p] + 1 < Len(recv_from[p][p])
                               THEN "recv_U" ELSE "merge"]
    /\ UNCHANGED <<A, call, split, full, silent, ret, raised, maxrank, maxmergedim, no_of_merges,
                   safetyshift, loctol, level, iter, U_loc, sigma_loc,
                   err_squared_loc, U_list, dims_global, active_nodes,
                   future_nodes, send_to, recv_from, finished, bc, final,
                   err_returned, no_truncations>>
    /\ UNCHANGED <<stdout, trunc_log, sent, covers>>

\* NextFactor with the multiplication by diag(sigma) at the final step too
NextFactorScaled(fut, t) == ScaleBySigma(t.U, t.sigma)

\* the factor a future node keeps after its truncation t (lines 398-400):
\* multiplied by diag(sigma) only if a further level follows
NextFactor(fut, t) ==
    IF Len(fut) > 1 THEN ScaleBySigma(t.U, t.sigma) ELSE t.U

\* a future node concatenates, truncates and accumulates (lines 380-401)
Merge(p) ==
    /\ pc[p] = "merge"
    /\ LET fut   == future_nodes[p]
           Ucat  == Flatten(U_list[p])
           esum  == SumInts(err_list[p])
           shift == step_safetyshift(fut, safetyshift[p])
           t     == compute_local_truncated_svd(Ucat, maxrank[p], loctol[p], shift)
       IN
        /\ level' = [level EXCEPT ![p] = @ + 1]
        /\ safetyshift' = [safetyshift EXCEPT ![p] = shift]
        /\ stdout' = [stdout EXCEPT ![p] = @ \o level_line(p) \o notice(t)]
        /\ IF t.raised
           THEN /\ pc' = [pc EXCEPT ![p] = "error"]
                /\ raised' = [raised EXCEPT ![p] = "svd"]
                /\ U_loc' = [U_loc EXCEPT ![p] = Ucat]
                /\ err_squared_loc' = [err_squared_loc EXCEPT ![p] = esum]
                /\ UNCHANGED <<sigma_loc, finished, active_nodes, err_returned,
                               no_truncations, trunc_log>>
           ELSE /\ pc' = [pc EXCEPT ![p] = AfterPass(p, fut, iter[p])]
                /\ U_loc' = [U_loc EXCEPT ![p] = NextFactor(fut, t)]
                /\ sigma_loc' = [sigma_loc EXCEPT ![p] = t.sigma]
                /\ err_squared_loc' = [err_squared_loc EXCEPT ![p] = esum + t.err]
                /\ err_returned' = err_returned + t.err
                /\ no_truncations' = no_truncations + 1
                /\ trunc_log' = trunc_log \cup
                      {LogEntry(p, level[p] + 1, iter[p], shift, Ucat, t,
                                Len(fut) = 1)}
                /\ EndPass(p, fut)
                /\ UNCHANGED raised
    /\ UNCHANGED <<A, call, split, full, silent, ret, maxrank, maxmergedim, no_of_merges, loctol, iter,
                   U_list, err_list, rk, dims_global, future_nodes, send_to,
                   recv_from, bc, chan, final>>
    /\ UNCHANGED <<sent, covers>>

\* A.comm.Send(U_loc, send_to[rank], tag=rank); a destination [] is not a
\* rank and the communicator raises
SendU(p) ==
    /\ pc[p] = "send_U"
    /\ LET dest == send_to[p][p] IN
        IF dest = Unset
        THEN /\ pc' = [pc EXCEPT ![p] = "error"]
             /\ raised' = [raised EXCEPT ![p] = "send"]
             /\ UNCHANGED chan
        ELSE /\ pc' = [pc EXCEPT ![p] = "send_err"]
             /\ chan' = [chan EXCEPT ![<<p, dest>>] =
                            Append(@, [tag |-> FactorTag(p), kind |-> "U",
                                       pass |-> iter[p], covers |-> covers[p],
                                       data |-> U_loc[p]])]
             /\ UNCHANGED raised
    /\ UNCHANGED <<A, call, split, full, silent, ret, maxrank, maxmergedim, no_of_merges, safetyshift,
                   loctol, level, iter, U_loc, sigma_loc, err_squared_loc,
                   U_list, err_list, rk, dims_global, active_nodes,
                   future_nodes, send_to, recv_from, finished, bc, final,
                   err_returned, no_truncations>>
    /\ UNCHANGED <<stdout, trunc_log, sent, covers>>

\* A.comm.Send(err_squared_loc, send_to[rank], tag=2 * no_procs + rank)
SendErr(p) ==
    /\ pc[p] = "send_err"
    /\ chan' = [chan EXCEPT ![<<p, send_to[p][p]>>] =
                   Append(@, [tag |-> ErrorTag(p), kind |-> "err",
                              pass |-> iter[p], covers |-> covers[p],
                              data |-> err_squared_loc[p]])]
    /\ pc' = [pc EXCEPT ![p] = AfterPass(p, future_nodes[p], iter[p])]
    /\ EndPass(p, future_nodes[p])
    /\ UNCHANGED <<A, call, split, full, silent, ret, raised, maxrank, maxmergedim, no_of_merges,
                   safetyshift, loctol, level, iter, U_loc, sigma_loc,
                   err_squared_loc, U_list, err_list, rk, dims_global,
                   future_nodes, send_to, recv_from, bc, final, err_returned,
                   no_truncations>>
    /\ sent' = [sent EXCEPT ![p] = Append(@, iter[p])]
    /\ UNCHANGED <<stdout, trunc_log, covers>>

\* the result broadcasts with root 0, the postprocessing and the return
\* (lines 413-445)
FinalBcast(p) ==
    /\ pc[p] = "final"
    /\ IF p = 0
       THEN /\ final' = <<[shape |-> Len(U_loc[0]), U |-> U_loc[0],
                           err |-> err_squared_loc[0]]>>
            /\ UNCHANGED <<U_loc, err_squared_loc>>
       ELSE /\ final # <<>>
            /\ U_loc' = [U_loc EXCEPT ![p] = final[1].U]
            /\ err_squared_loc' = [err_squared_loc EXCEPT ![p] = final[1].err]
            /\ UNCHANGED final
    /\ ret' = [ret EXCEPT ![p] = hsvd_return(transposeflag, full, U_loc'[p],
                                             err_squared_loc'[p])]
    /\ pc' = [pc EXCEPT ![p] = "done"]
    /\ UNCHANGED <<A, call, split, full, silent, raised, maxrank, maxmergedim, no_of_merges,
                   safetyshift, loctol, level, iter, sigma_loc, U_list,
                   err_list, rk, dims_global, active_nodes, future_nodes,
                   send_to, recv_from, finished, bc, chan, err_returned,
                   no_truncations>>
    /\ covers' = [covers EXCEPT ![p] = covers[0]]
    /\ UNCHANGED <<stdout, trunc_log, sent>>

Next ==
    \/ \E p \in Procs : Gate(p)
    \/ \E p \in Procs : Level0(p)
    \/ \E p \in Procs : BcastDims(p)
    \/ \E p \in Procs : CollectDims(p)
    \/ \E p \in Procs : RecvU(p)
    \/ \E p \in Procs : RecvErr(p)
    \/ \E p \in Procs : Merge(p)
    \/ \E p \in Procs : SendU(p)
    \/ \E p \in Procs : SendErr(p)
    \/ \E p \in Procs : FinalBcast(p)

Spec == Init /\ [][Next]_vars

\* ------------------------------------------------- the gates on their own
GateMaxP == 2

GateCalls ==
    {[entry |-> "hsvd_rank", maxrank |-> r, maxmergedim |-> m, rtol |-> NoRtol,
      safetyshift |-> s, no_of_merges |-> None] :
        r \in 0..MaxRankArg, m \in {None} \cup 1..MaxMergeArg,
        s \in 0..MaxShiftArg}
    \cup
    {[entry |-> "hsvd_rtol", maxrank |-> r, maxmergedim |-> m, rtol |-> t,
      safetyshift |-> s, no_of_merges |-> n] :
        r \in {None} \cup 0..MaxRankArg, m \in {None} \cup 1..MaxMergeArg,
        t \in RtolSet, s \in 0..MaxShiftArg, n \in {None, 1, 2}}

InitGate ==
    /\ \E P \in 1..GateMaxP :
          \E shape \in [0..(P - 1) -> 1..MaxLocalSize] :
              A = [p \in 0..(P - 1) |-> ZeroCols(shape[p])]
    /\ call \in GateCalls
    /\ split = 1
    /\ full = FALSE
    /\ silent = TRUE
    /\ ret = [p \in Procs |-> NotReturned]
    /\ stdout = [p \in Procs |-> <<>>]
    /\ trunc_log = {}
    /\ sent = [p \in Procs |-> <<>>]
    /\ covers = [p \in Procs |-> <<>>]
    /\ pc = [p \in Procs |-> "call"]
    /\ raised = [p \in Procs |-> "none"]
    /\ maxrank = [p \in Procs |-> 0]
    /\ maxmergedim = [p \in Procs |-> 0]
    /\ no_of_merges = [p \in Procs |-> None]
    /\ safetyshift = [p \in Procs |-> 0]
    /\ loctol = [p \in Procs |-> NoLoctol]
    /\ level = [p \in Procs |-> 0]
    /\ iter = [p \in Procs |-> 0]
    /\ U_loc = [p \in Procs |-> <<>>]
    /\ sigma_loc = [p \in Procs |-> <<>>]
    /\ err_squared_loc = [p \in Procs |-> 0]
    /\ U_list = [p \in Procs |-> <<>>]
    /\ err_list = [p \in Procs |-> <<>>]
    /\ rk = [p \in Procs |-> 0]
    /\ dims_global = [p \in Procs |-> [k \in Procs |-> 0]]
    /\ active_nodes = [p \in Procs |-> <<>>]
    /\ future_nodes = [p \in Procs |-> <<>>]
    /\ send_to = [p \in Procs |-> [k \in Procs |-> Unset]]
    /\ recv_from = [p \in Procs |-> [k \in Procs |-> <<>>]]
    /\ finished = [p \in Procs |-> FALSE]
    /\ bc = [k \in Procs |-> <<>>]
    /\ chan = [e \in Procs \X Procs |-> <<>>]
    /\ final = <<>>
    /\ err_returned = 0
    /\ no_truncations = 0

NextGate == \E p \in Procs : Gate(p)

SpecGate == InitGate /\ [][NextGate]_vars

\* the state of every process at its call
InitLocals ==
    /\ ret = [p \in Procs |-> NotReturned]
    /\ stdout = [p \in Procs |-> <<>>]
    /\ trunc_log = {}
    /\ sent = [p \in Procs |-> <<>>]
    /\ covers = [p \in Procs |-> <<>>]
    /\ pc = [p \in Procs |-> "call"]
    /\ raised = [p \in Procs |-> "none"]
    /\ maxrank = [p \in Procs |-> 0]
    /\ maxmergedim = [p \in Procs |-> 0]
    /\ no_of_merges = [p \in Procs |-> None]
    /\ safetyshift = [p \in Procs |-> 0]
    /\ loctol = [p \in Procs |-> NoLoctol]
    /\ level = [p \in Procs |-> 0]
    /\ iter = [p \in Procs |-> 0]
    /\ U_loc = [p \in Procs |-> <<>>]
    /\ sigma_loc = [p \in Procs |-> <<>>]
    /\ err_squared_loc = [p \in Procs |-> 0]
    /\ U_list = [p \in Procs |-> <<>>]
    /\ err_list = [p \in Procs |-> <<>>]
    /\ rk = [p \in Procs |-> 0]
    /\ dims_global = [p \in Procs |-> [k \in Procs |-> 0]]
    /\ active_nodes = [p \in Procs |-> <<>>]
    /\ future_nodes = [p \in Procs |-> <<>>]
    /\ send_to = [p \in Procs |-> [k \in Procs |-> Unset]]
    /\ recv_from = [p \in Procs |-> [k \in Procs |-> <<>>]]
    /\ finished = [p \in Procs |-> FALSE]
    /\ bc = [k \in Procs |-> <<>>]
    /\ chan = [e \in Procs \X Procs |-> <<>>]
    /\ final = <<>>
    /\ err_returned = 0
    /\ no_truncations = 0

\* ------------------------------------- the run with every split and full
ReturnMaxP == 2

ReturnCalls ==
    {[entry |-> "hsvd_rank", maxrank |-> 1, maxmergedim |-> None,
      rtol |-> NoRtol, safetyshift |-> 0, no_of_merges |-> None],
     [entry |-> "hsvd_rank", maxrank |-> 2, maxmergedim |-> None,
      rtol |-> NoRtol, safetyshift |-> 1, no_of_merges |-> None],
     [entry |-> "hsvd_rtol", maxrank |-> None, maxmergedim |-> None,
      rtol |-> <<1, 4>>, safetyshift |-> 1, no_of_merges |-> None]}

InitReturn ==
    /\ \E P \in 1..ReturnMaxP : A \in [0..(P - 1) -> BlockSet]
    /\ call \in ReturnCalls
    /\ split \in {0, 1}
    /\ full \in BOOLEAN
    /\ silent \in BOOLEAN
    /\ InitLocals

SpecReturn == InitReturn /\ [][Next]_vars

\* ------------------------------------------- the level-0 truncation alone
TruncMaxP == 1

\* local blocks of 1, 2, 3 and 5 columns: full rank, a direction below the
\* noise level, rank-deficient (two parallel columns), and more columns than
\* rows
TruncBlocks ==
    { << <<1, 16>> >>,
      << <<1, 16>>, <<2, 4>> >>,
      << <<1, 16>>, <<2, 4>>, <<3, 1>> >>,
      << <<1, 4>>, <<1, 4>>, <<2, 2>> >>,
      << <<1, 16>>, <<2, 4>>, <<3, 2>>, <<4, 2>>, <<1, 2>> >> }

\* rtol ** 2 as <<num, den>>: rtol = 0, rtol ** 2 = 1/32, rtol = 1/4, 1/2, or
\* not given
TruncRtols == { NoRtol, <<0, 1>>, <<1, 32>>, <<1, 16>>, <<1, 4>> }

TruncCalls ==
    {[entry |-> "hsvd", maxrank |-> r, maxmergedim |-> 2 * (r + s) + 1,
      rtol |-> t, safetyshift |-> s, no_of_merges |-> None] :
        r \in 1..MaxRankArg, s \in 0..MaxShiftArg, t \in TruncRtols}

InitTrunc ==
    /\ \E P \in 1..TruncMaxP : A \in [0..(P - 1) -> TruncBlocks]
    /\ call \in TruncCalls
    /\ split = 1
    /\ full = FALSE
    /\ silent \in BOOLEAN
    /\ InitLocals

NextTrunc ==
    \/ \E p \in Procs : Gate(p)
    \/ \E p \in Procs : Level0(p)

SpecTrunc == InitTrunc /\ [][NextTrunc]_vars

\* ------------------------------------- the run with synchronous Send/Recv
\* A.comm.Send(U_loc, send_to[rank], tag=rank) of child c completing together
\* with the matching A.comm.Recv(U_loc[k + 1], recv_from[rank][k], tag=...)
\* of its parent: neither call returns before the other is posted
SendRecvU(c) ==
    /\ pc[c] = "send_U"
    /\ send_to[c][c] # Unset
    /\ LET d   == send_to[c][c]
           src == recv_from[d][d][rk[d] + 1]
       IN
        /\ pc[d] = "recv_U"
        /\ src = c
        /\ FactorTag(src) = FactorTag(c)
        /\ U_list' = [U_list EXCEPT ![d][rk[d] + 2] = U_loc[c]]
        /\ covers' = [covers EXCEPT ![d] = @ \o covers[c]]
        /\ pc' = [pc EXCEPT ![c] = "send_err", ![d] = "recv_err"]
    /\ UNCHANGED <<A, call, split, full, silent, ret, raised, maxrank,
                   maxmergedim, no_of_merges, safetyshift, loctol, level, iter,
                   U_loc, sigma_loc, err_squared_loc, err_list, rk,
                   dims_global, active_nodes, future_nodes, send_to, recv_from,
                   finished, bc, chan, final, err_returned, no_truncations>>
    /\ UNCHANGED <<stdout, trunc_log, sent>>

\* A.comm.Send(err_squared_loc, send_to[rank], tag=2 * no_procs + rank) of
\* child c completing together with the matching Recv of its parent; the
\* child then ends its pass (lines 406-411)
SendRecvErr(c) ==
    /\ pc[c] = "send_err"
    /\ LET d   == send_to[c][c]
           src == recv_from[d][d][rk[d] + 1]
       IN
        /\ pc[d] = "recv_err"
        /\ src = c
        /\ ErrorTag(src) = ErrorTag(c)
        /\ err_list' = [err_list EXCEPT ![d][rk[d] + 2] = err_squared_loc[c]]
        /\ rk' = [rk EXCEPT ![d] = @ + 1]
        /\ pc' = [pc EXCEPT ![c] = AfterPass(c, future_nodes[c], iter[c]),
                            ![d] = IF rk[d] + 1 < Len(recv_from[d][d])
                                   THEN "recv_U" ELSE "merge"]
    /\ EndPass(c, future_nodes[c])
    /\ sent' = [sent EXCEPT ![c] = Append(@, iter[c])]
    /\ UNCHANGED <<A, call, split, full, silent, ret, raised, maxrank,
                   maxmergedim, no_of_merges, safetyshift, loctol, level, iter,
                   U_loc, sigma_loc, err_squared_loc, U_list, dims_global,
                   future_nodes, send_to, recv_from, bc, chan, final,
                   err_returned, no_truncations>>
    /\ UNCHANGED <<stdout, trunc_log, covers>>

\* A.comm.Send with the destination [] raises before anything is posted
SendNowhere(p) ==
    /\ send_to[p][p] = Unset
    /\ SendU(p)

NextSync ==
    \/ \E p \in Procs : Gate(p)
    \/ \E p \in Procs : Level0(p)
    \/ \E p \in Procs : BcastDims(p)
    \/ \E p \in Procs : CollectDims(p)
    \/ \E p \in Procs : SendRecvU(p)
    \/ \E p \in Procs : SendRecvErr(p)
    \/ \E p \in Procs : SendNowhere(p)
    \/ \E p \in Procs : Merge(p)
    \/ \E p \in Procs : FinalBcast(p)

SpecSync == Init /\ [][NextSync]_vars

\* ------------------------------------------------------------- properties
\* the arguments hsvd runs with on p admit a two-child group
Feasible(p) == maxmergedim[p] >= 2 * (maxrank[p] + call.safetyshift) + 1

\* p has passed the gate and runs (or ran) hsvd
InDriver(p) == pc[p] \notin {"call"} /\ raised[p] # "gate"

\* p is inside a pass of the level loop, after its sweep
InPass(p) == pc[p] \in {"recv_U", "recv_err", "merge", "send_U", "send_err"}

NoCommunication ==
    /\ \A k \in Procs : bc[k] = <<>>
    /\ \A e \in Procs \X Procs : chan[e] = <<>>
    /\ final = <<>>

\* the group of parent f in the plan of process p
Group(p, f) == {f} \cup {c \in Procs : send_to[p][c] = f}

GroupWidth(p, f) == SumOver(dims_global[p], Group(p, f))

\* C1: under maxmergedim >= 2*(maxrank+safetyshift)+1, in every plan every
\* parent's group has total published width <= maxmergedim and, when
\* no_of_merges is set, at most no_of_merges members
C1_TreeWidthBound ==
    \A p \in Procs :
        (iter[p] >= 1 /\ Feasible(p)) =>
            \A i \in 1..Len(future_nodes[p]) :
                LET f == future_nodes[p][i] IN
                /\ GroupWidth(p, f) <= maxmergedim[p]
                /\ no_of_merges[p] # None =>
                       Cardinality(Group(p, f)) <= no_of_merges[p]

\* a plan with two parents, one of them with a group as large as no_of_merges allows
C1_Witness ==
    \E p \in Procs :
        /\ iter[p] >= 1 /\ Feasible(p) /\ no_of_merges[p] # None
        /\ \E i \in 1..Len(future_nodes[p]) :
               Cardinality(Group(p, future_nodes[p][i])) = no_of_merges[p]
        /\ Len(future_nodes[p]) >= 2

\* C3: every plan keeps rank 0 first, the loop ends with rank 0 alone, and
\* the result every process returns is the factor and e^2 rank 0 holds after
\* its truncation in the last pass
C3_RankZeroSurvives ==
    \A p \in Procs :
        /\ iter[p] >= 1 =>
              /\ Head(future_nodes[p]) = 0
              /\ Head(active_nodes[p]) = 0
        /\ finished[p] => future_nodes[p] = <<0>>
        /\ pc[p] = "done" =>
              /\ pc[0] = "done"
              /\ level[0] = iter[0]
              /\ final = <<[shape |-> Len(U_loc[0]), U |-> U_loc[0],
                           err |-> err_squared_loc[0]]>>
              /\ U_loc[p] = U_loc[0]
              /\ err_squared_loc[p] = err_squared_loc[0]

C3_Witness ==
    /\ no_procs >= 3
    /\ \A p \in Procs : pc[p] = "done" /\ iter[p] >= 2

\* C2: in tolerance mode without an effective rank cap (maxrank >= n) the
\* returned estimate is at most rtol: e^2 <= rtol^2 * ||A||_F^2
C2_ErrorWithinRtol ==
    \A p \in Procs :
        (pc[p] = "done" /\ call.rtol # NoRtol /\ maxrank[p] >= ncols) =>
            err_squared_loc[p] * call.rtol[2] <= call.rtol[1] * AnormSq

\* C4: when the level loop has ended on rank 0, the e^2 it holds is the sum of
\* the e^2 returned by all truncations of the run
C4_ErrorConservation ==
    finished[0] => err_squared_loc[0] = err_returned

\* the call passed its gate with arguments that admit a two-child group and
\* a count cap that is unset or >= 2
TerminationPrecondition ==
    \A p \in Procs :
        /\ InDriver(p)
        /\ Feasible(p)
        /\ no_of_merges[p] = None \/ no_of_merges[p] >= 2

\* the next step of process p is not blocked
CanStep(p) ==
    CASE pc[p] \in {"call", "hsvd", "merge", "send_U", "send_err"} -> TRUE
      [] pc[p] = "bcast" -> \A k \in Procs : k < p => Len(bc[k]) > iter[p]
      [] pc[p] = "collect" -> \A k \in Procs : Len(bc[k]) > iter[p]
      [] pc[p] = "recv_U" ->
            LET src == recv_from[p][p][rk[p] + 1]
            IN FirstWithTag(chan[<<src, p>>], FactorTag(src)) # 0
      [] pc[p] = "recv_err" ->
            LET src == recv_from[p][p][rk[p] + 1]
            IN FirstWithTag(chan[<<src, p>>], ErrorTag(src)) # 0
      [] pc[p] = "final" -> p = 0 \/ final # <<>>
      [] OTHER -> FALSE

Stopped == \A p \in Procs : ~ CanStep(p)

\* C5: under the precondition every pass with two or more active nodes
\* yields a strictly smaller next active set, and a run can only stop with
\* the level loop ended on every process (one future node, finished set)
C5_Termination ==
    TerminationPrecondition =>
        /\ \A p \in Procs :
              (InPass(p) /\ Len(active_nodes[p]) >= 2) =>
                  Len(future_nodes[p]) < Len(active_nodes[p])
        /\ Stopped =>
              \A p \in Procs :
                  /\ pc[p] = "done"
                  /\ finished[p]
                  /\ Len(future_nodes[p]) = 1

\* the call gives maxmergedim and maxrank and they do not admit a two-child group
Oversubscribed ==
    /\ call.maxmergedim # None
    /\ call.maxrank # None
    /\ call.maxmergedim < 2 * (call.maxrank + call.safetyshift) + 1

\* C6: hsvd_rank and hsvd_rtol called with maxmergedim and maxrank given and
\* maxmergedim < 2*(maxrank+safetyshift)+1 raise at the gate, and no
\* broadcast, send or receive of the driver has been performed
C6_OversubscriptionGuard ==
    (call.entry \in {"hsvd_rank", "hsvd_rtol"} /\ Oversubscribed) =>
        /\ \A p \in Procs :
              /\ pc[p] \in {"call", "error"}
              /\ pc[p] = "error" => raised[p] = "gate"
        /\ NoCommunication

C6_Witness ==
    /\ call.entry \in {"hsvd_rank", "hsvd_rtol"}
    /\ Oversubscribed
    /\ \A p \in Procs : pc[p] = "error" /\ raised[p] = "gate"

\* C7 as stated: hsvd called directly with maxmergedim <
\* 2*(maxrank+safetyshift)+1 fails with an error before any communication
C7_DriverFailsFast ==
    (call.entry = "hsvd" /\ Oversubscribed) =>
        /\ \A p \in Procs : pc[p] \in {"call", "error"}
        /\ NoCommunication

\* C7 as amended: hsvd called directly with maxmergedim <
\* 2*(maxrank+safetyshift)+1 raises no error for its arguments, and when the
\* run has stopped every process has entered the level loop and taken part in
\* the width broadcasts
C7_DriverDoesNotCheck ==
    (call.entry = "hsvd" /\ Oversubscribed) =>
        /\ \A p \in Procs : raised[p] # "gate"
        /\ Stopped => \A p \in Procs : iter[p] >= 1 /\ bc[p] # <<>>

C7_Witness ==
    /\ call.entry = "hsvd"
    /\ Oversubscribed
    /\ Stopped
    /\ \E p \in Procs : iter[p] >= 2

\* C8: hsvd_rank called with maxrank <= 0 is rejected at the gate and never
\* reaches hsvd
C8_RankGatePositive ==
    (call.entry = "hsvd_rank" /\ call.maxrank <= 0) =>
        \A p \in Procs : pc[p] \in {"call", "error"}

\* C9: hsvd_rank called with maxmergedim = None (and a positive maxrank)
\* passes max(local_width_max, 2*(maxrank+safetyshift)+1) to hsvd
C9_DefaultMergeDim ==
    (call.entry = "hsvd_rank" /\ call.maxmergedim = None /\ call.maxrank >= 1) =>
        \A p \in Procs :
            InDriver(p) =>
                maxmergedim[p] =
                    Max2(A_local_size, 2 * (call.maxrank + call.safetyshift) + 1)

\* C10: hsvd_rtol called with only maxmergedim set, where maxmergedim admits
\* a positive maxrank, proceeds to hsvd with a derived maxrank >= 1 for which
\* maxmergedim >= 2*(maxrank+safetyshift)+1
C10_DerivedMaxrank ==
    ( /\ call.entry = "hsvd_rtol"
      /\ call.maxrank = None
      /\ call.maxmergedim # None
      /\ call.maxmergedim >= 2 * (1 + call.safetyshift) + 1
      /\ call.no_of_merges = None \/ call.no_of_merges >= 2 ) =>
        \A p \in Procs :
            pc[p] # "call" =>
                /\ raised[p] # "gate"
                /\ maxrank[p] >= 1
                /\ Feasible(p)

\* C11: hsvd_rtol called with maxrank, maxmergedim and no_of_merges all None
\* calls hsvd with no_of_merges = 2, maxrank = n and maxmergedim =
\* 2*(n+safetyshift)+1 for n = A.shape[1]; and hsvd_rtol called with a
\* no_of_merges < 2 raises at the gate whatever the other arguments are
C11_NothingSetDefaults ==
    /\ ( /\ call.entry = "hsvd_rtol"
         /\ call.maxrank = None
         /\ call.maxmergedim = None
         /\ call.no_of_merges = None ) =>
           \A p \in Procs :
               pc[p] # "call" =>
                   /\ pc[p] = "hsvd"
                   /\ no_of_merges[p] = 2
                   /\ maxrank[p] = ncols
                   /\ maxmergedim[p] = 2 * (ncols + call.safetyshift) + 1
    /\ ( /\ call.entry = "hsvd_rtol"
         /\ call.no_of_merges # None
         /\ call.no_of_merges < 2 ) =>
           \A p \in Procs :
               pc[p] # "call" => pc[p] = "error" /\ raised[p] = "gate"

\* two processes with different local widths have passed the gate of a call
\* with nothing set
C11_Witness ==
    /\ call.entry = "hsvd_rtol"
    /\ call.maxrank = None /\ call.maxmergedim = None
    /\ call.no_of_merges = None
    /\ call.safetyshift >= 1
    /\ no_procs = 2
    /\ ncols # A_local_size
    /\ \A p \in Procs : pc[p] = "hsvd"

\* C12: hsvd returns (V, sigma, U, rel_err) for split 0 and full, (V, rel_err)
\* for split 0 and not full, (U, sigma, V, rel_err) for a column-split input
\* and full, (U, rel_err) for a column-split input and not full; V and sigma
\* are computed exactly when split = 0 or full
C12_ReturnConvention ==
    \A p \in Procs :
        IF pc[p] = "done"
        THEN LET U       == U_loc[p]
                 sigma   == sigma_of(U)
                 V       == V_of(U)
                 rel_err == <<err_squared_loc[p], AnormSq>>
             IN /\ (split = 0 /\ full) => ret[p].value = <<V, sigma, U, rel_err>>
                /\ (split = 0 /\ ~ full) => ret[p].value = <<V, rel_err>>
                /\ (split # 0 /\ full) => ret[p].value = <<U, sigma, V, rel_err>>
                /\ (split # 0 /\ ~ full) => ret[p].value = <<U, rel_err>>
                /\ ret[p].computed_V <=> (split = 0 \/ full)
        ELSE ret[p] = NotReturned

\* two processes have returned from a call with split 0 and full, with a
\* factor of two columns
C12_Witness ==
    /\ split = 0 /\ full
    /\ no_procs = 2
    /\ \A p \in Procs :
          pc[p] = "done" /\ Len(U_loc[p]) = 2 /\ Len(ret[p].value) = 4

\* the level-0 truncation of the block of process p with the arguments of
\* the call
Level0Truncation(p) ==
    compute_local_truncated_svd(A[p], maxrank[p], loctol[p], call.safetyshift)

\* C13: with a single process exactly one local truncation is performed, and
\* the U and e^2 returned are those of the level-0 truncation of A
C13_SingleProcess ==
    (no_procs = 1 /\ pc[0] = "done") =>
        /\ no_truncations = 1
        /\ U_loc[0] = Level0Truncation(0).U
        /\ err_squared_loc[0] = Level0Truncation(0).err

\* U^T U = I: every column is a unit vector and no two columns have the same
\* direction (columns of direction 0 come from the SVD's completion and are
\* orthogonal to all others)
Orthonormal(U) ==
    /\ \A i \in 1..Len(U) : U[i][2] = 1
    /\ \A i, j \in 1..Len(U) :
          (i # j /\ U[i][1] # 0) => U[i][1] # U[j][1]

\* the factor of p is the U of its last truncation times diag(sigma)
CarriedScaled(p) ==
    U_loc[p] = ScaleBySigma(UnitCols(sigma_loc[p]), sigma_loc[p])

\* p holds a factor that goes to a further level
Carrying(p) ==
    pc[p] \in {"bcast", "collect", "recv_U", "recv_err", "merge", "send_U",
               "send_err"}

\* the last truncation on rank 0 took the degenerate branch
FinalDegenerate == sigma_loc[0] = << <<0, 0>> >>

\* C14 as stated: for all inputs the U returned by hsvd has orthonormal
\* columns, and every factor carried to a further level is the U of a
\* truncation multiplied by diag(sigma)
C14_OrthonormalResult ==
    \A p \in Procs :
        /\ pc[p] = "done" => Orthonormal(U_loc[p])
        /\ Carrying(p) => CarriedScaled(p)

\* C14 as amended: the U returned by hsvd has orthonormal columns unless the
\* final truncation took the degenerate branch, in which case it is one zero
\* column; every factor carried to a further level is the U of a truncation
\* multiplied by diag(sigma)
C14_OrthonormalUnlessDegenerate ==
    \A p \in Procs :
        /\ pc[p] = "done" =>
              IF FinalDegenerate THEN U_loc[p] = << <<0, 0>> >>
              ELSE Orthonormal(U_loc[p])
        /\ Carrying(p) => CarriedScaled(p)

\* three processes have returned a factor of two columns that was merged
\* from scaled factors
C14_Witness ==
    /\ no_procs = 3
    /\ ~ FinalDegenerate
    /\ \A p \in Procs : pc[p] = "done" /\ Len(U_loc[p]) = 2
    /\ \E k \in 1..Len(U_list[0]) :
          \E i \in 1..Len(U_list[0][k]) : U_list[0][k][i][2] > 1

\* every singular value of every local block lies below the noise level
AllNoise ==
    \A p \in Procs :
        \A i \in 1..Len(svd(A[p])) : svd(A[p])[i][2] < NoiseSq

\* p has performed at least one truncation
Truncated(p) == pc[p] \notin {"call", "hsvd"} /\ raised[p] = "none"

\* C15: when every singular value of every local block is below the noise
\* level, every truncation returns the zero factor of one column with sigma =
\* [0], no process raises in hsvd, a run whose arguments admit a two-child
\* group stops only with every process returned, and the returned e^2 is the
\* sum of the squared norms of the local blocks, so rel_err <= 1
C15_NoiseFloorInput ==
    AllNoise =>
        /\ \A p \in Procs :
              /\ raised[p] \in {"none", "gate"}
              /\ Truncated(p) =>
                    /\ U_loc[p] = << <<0, 0>> >>
                    /\ sigma_loc[p] = << <<0, 0>> >>
              /\ pc[p] = "done" =>
                    /\ err_squared_loc[p] = AnormSq
                    /\ ret[p].value[Len(ret[p].value)] = <<AnormSq, AnormSq>>
        /\ err_returned <= AnormSq
        /\ (TerminationPrecondition /\ Stopped) =>
               \A p \in Procs : pc[p] = "done" /\ finished[p]

\* three processes with blocks below the noise level have returned after two
\* levels of merging
C15_Witness ==
    /\ AllNoise
    /\ no_procs = 3
    /\ level[0] >= 2
    /\ \A p \in Procs : pc[p] = "done"

\* the messages a receive of p from src with tag t can match
Matching(p, src, t) ==
    {i \in 1..Len(chan[<<src, p>>]) : chan[<<src, p>>][i].tag = t}

\* C16: a factor sent by rank c carries tag c and an error scalar tag 2P + c,
\* the two tag ranges are disjoint, no two messages in flight have the same
\* (source, destination, tag), and the receive a parent has posted matches
\* only the message of the child, kind and pass it was posted for
C16_TagDiscipline ==
    /\ {FactorTag(c) : c \in Procs} \cap {ErrorTag(c) : c \in Procs} = {}
    /\ \A src, dst \in Procs :
          LET q == chan[<<src, dst>>] IN
          /\ \A i \in 1..Len(q) :
                /\ q[i].kind = "U" => q[i].tag = src
                /\ q[i].kind = "err" => q[i].tag = 2 * no_procs + src
          /\ \A i, j \in 1..Len(q) : i # j => q[i].tag # q[j].tag
    /\ \A p \in Procs :
          /\ pc[p] = "recv_U" =>
                LET src == recv_from[p][p][rk[p] + 1]
                    q   == chan[<<src, p>>]
                IN \A i \in Matching(p, src, src) :
                      /\ q[i].kind = "U"
                      /\ q[i].pass = iter[p]
                      /\ Len(q[i].data) = dims_global[p][src]
          /\ pc[p] = "recv_err" =>
                LET src == recv_from[p][p][rk[p] + 1]
                    q   == chan[<<src, p>>]
                IN \A i \in Matching(p, src, 2 * no_procs + src) :
                      /\ q[i].kind = "err"
                      /\ q[i].pass = iter[p]

\* rank 0 waits for the factor of its first child while both messages of
\* both of its children are in flight
C16_Witness ==
    /\ no_procs = 3
    /\ pc[0] = "recv_U"
    /\ Len(chan[<<1, 0>>]) = 2
    /\ Len(chan[<<2, 0>>]) = 2

\* C17: in every plan each rank of the active set that is not a future node
\* has send_to set to a future node and appears in that node's recv_from
\* list, so the groups partition the active set
C17_EveryChildHasParent ==
    \A p \in Procs :
        InPass(p) =>
            \A c \in SeqElems(active_nodes[p]) \ SeqElems(future_nodes[p]) :
                /\ send_to[p][c] \in SeqElems(future_nodes[p])
                /\ c \in SeqElems(recv_from[p][send_to[p][c]])

\* p has made its level-0 truncation and nothing after it
AfterLevel0(p) == pc[p] = "bcast" /\ iter[p] = 0

\* the singular values of the block of p
sigma_f(p) == svd(A[p])

\* the block of p has a singular value at or above the noise level
NonDegenerate(p) ==
    \E i \in 1..Len(sigma_f(p)) : sigma_f(p)[i][2] >= NoiseSq

\* the number of singular values up to the last one at or above the noise level
k_noise(p) ==
    SetMax({i \in 1..Len(sigma_f(p)) : sigma_f(p)[i][2] >= NoiseSq})

\* the least k whose tail has squared norm < loctol ** 2, or c if there is none
k_tol(p) ==
    IF TolRanks(sigma_f(p), loctol[p]) = {} THEN Len(A[p])
    ELSE SetMin(TolRanks(sigma_f(p), loctol[p]))

\* k* = min(maxrank, k_noise, k_tol if loctol is set)
k_star(p) ==
    IF loctol[p] = NoLoctol THEN Min2(maxrank[p], k_noise(p))
    ELSE Min2(maxrank[p], Min2(k_noise(p), k_tol(p)))

\* C18: on the non-degenerate path the e^2 returned by
\* compute_local_truncated_svd is the squared norm of the tail of the singular
\* values that starts at the base rank k*
C18_ErrorTailAtBaseRank ==
    \A p \in Procs :
        (AfterLevel0(p) /\ NonDegenerate(p)) =>
            err_squared_loc[p] = TailSq(sigma_f(p), k_star(p))

\* C19 as stated: on the non-degenerate path the factor returned by
\* compute_local_truncated_svd has min(c, k* + safetyshift) columns for a
\* matrix of c columns
C19_ReturnedRank ==
    \A p \in Procs :
        (AfterLevel0(p) /\ NonDegenerate(p)) =>
            /\ Len(U_loc[p]) = Min2(Len(A[p]), k_star(p) + safetyshift[p])
            /\ Len(sigma_loc[p]) = Len(U_loc[p])

\* C19 as amended: on the non-degenerate path the factor returned by
\* compute_local_truncated_svd has min(min(m, c), k* + safetyshift) columns
\* for a matrix of m rows and c columns
C19_ReturnedRankThin ==
    \A p \in Procs :
        (AfterLevel0(p) /\ NonDegenerate(p)) =>
            /\ Len(U_loc[p]) =
                   Min2(Min2(NRows, Len(A[p])), k_star(p) + safetyshift[p])
            /\ Len(sigma_loc[p]) = Len(U_loc[p])

\* a truncation with a tolerance whose rank the tolerance decides, and whose
\* safety shift is cut by the number of columns
C19_Witness ==
    \E p \in Procs :
        /\ AfterLevel0(p) /\ NonDegenerate(p)
        /\ loctol[p] # NoLoctol
        /\ k_star(p) = k_tol(p) /\ k_star(p) < maxrank[p]
        /\ k_star(p) < k_noise(p)
        /\ safetyshift[p] >= 1
        /\ Len(U_loc[p]) = Len(A[p])
        /\ Len(U_loc[p]) < k_star(p) + safetyshift[p]

\* C20: when loctol is set and no k has a tail of squared norm < loctol^2,
\* the truncation does not raise and returns with the ideal tolerance rank
\* taken as c
C20_ToleranceFallback ==
    \A p \in Procs :
        ( /\ pc[p] \notin {"call", "hsvd"}
          /\ loctol[p] # NoLoctol
          /\ NonDegenerate(p)
          /\ TolRanks(sigma_f(p), loctol[p]) = {} ) =>
            /\ raised[p] = "none"
            /\ pc[p] = "bcast"
            /\ Len(U_loc[p]) =
                   Min2(Len(sigma_f(p)), k_star(p) + safetyshift[p])

\* the number of loss-of-precision notices process p has printed
Notices(p) == Cardinality({i \in 1..Len(stdout[p]) : stdout[p][i] = "notice"})

\* the ideal tolerance rank of the block of p exceeds maxrank
ClampedByMaxrank(p) == loctol[p] # NoLoctol /\ k_tol(p) > maxrank[p]

\* C21: a local truncation prints the loss-of-precision notice once if the
\* ideal tolerance rank exceeds maxrank and not at all otherwise (in
\* particular not when only the noise-floor rank limits the rank), and a
\* call with silent = true prints nothing
C21_PrecisionNotice ==
    \A p \in Procs :
        (AfterLevel0(p) /\ NonDegenerate(p)) =>
            /\ Notices(p) = IF ClampedByMaxrank(p) THEN 1 ELSE 0
            /\ silent => stdout[p] = <<>>

\* the truncations of process p that returned
TruncationsOf(p) == {t \in trunc_log : t.proc = p}

\* C22: the truncation of the pass with one future node runs with
\* safetyshift = 0 and every other truncation with the safetyshift of the
\* call; the last truncation of a finished run is of the first kind, and the
\* U every process returns has this truncation's width, at most maxrank
C22_FinalStepClean ==
    /\ \A t \in trunc_log :
          t.shift = IF t.last THEN 0 ELSE call.safetyshift
    /\ finished[0] =>
          \E t \in TruncationsOf(0) :
              /\ t.last
              /\ \A u \in trunc_log : u.pass <= t.pass
              /\ \A u \in trunc_log : u.last => u = t
              /\ t.cout = Len(U_loc[0])
    /\ \A p \in Procs :
          pc[p] = "done" =>
              Len(U_loc[p]) = Len(U_loc[0]) /\ Len(U_loc[p]) <= maxrank[p]

\* three processes have returned a factor of maxrank columns after a merge
\* that was not the last one kept more than maxrank columns
C22_Witness ==
    /\ no_procs = 3
    /\ \A p \in Procs : pc[p] = "done" /\ Len(U_loc[p]) = maxrank[p]
    /\ \E t \in trunc_log :
          /\ ~ t.last /\ t.level >= 1
          /\ t.shift >= 1
          /\ t.cout > maxrank[t.proc]

\* the children process p receives from in its current pass
ChildrenOf(p) == recv_from[p][p]

\* the buffers 1..k of p hold the factors and errors of its first k children
ReceivedUpTo(p, k) ==
    \A i \in 1..k :
        /\ U_list[p][i + 1] = U_loc[ChildrenOf(p)[i]]
        /\ err_list[p][i + 1] = err_squared_loc[ChildrenOf(p)[i]]

\* the buffers after the first k of p are as allocated
EmptyAfter(p, k) ==
    \A i \in (k + 1)..Len(ChildrenOf(p)) :
        /\ U_list[p][i + 1] = ZeroCols(dims_global[p][ChildrenOf(p)[i]])
        /\ err_list[p][i + 1] = 0

\* C23: the block a parent truncates is its own factor followed by the
\* factors of its children in ascending rank order; the factor of a child is
\* received only after the factor and the error of every lower child, and the
\* truncation starts only after both messages of every child are received
C23_ConcatenationOrder ==
    \A p \in Procs :
        /\ (InPass(p) /\ pc[p] \notin {"send_U", "send_err"}) =>
              /\ \A i, j \in 1..Len(ChildrenOf(p)) :
                    i < j => ChildrenOf(p)[i] < ChildrenOf(p)[j]
              /\ U_list[p][1] = U_loc[p]
              /\ err_list[p][1] = err_squared_loc[p]
        /\ pc[p] = "recv_U" =>
              /\ ReceivedUpTo(p, rk[p])
              /\ EmptyAfter(p, rk[p])
        /\ pc[p] = "recv_err" =>
              /\ ReceivedUpTo(p, rk[p])
              /\ U_list[p][rk[p] + 2] = U_loc[ChildrenOf(p)[rk[p] + 1]]
              /\ err_list[p][rk[p] + 2] = 0
              /\ EmptyAfter(p, rk[p] + 1)
        /\ pc[p] = "merge" =>
              /\ rk[p] = Len(ChildrenOf(p))
              /\ ReceivedUpTo(p, Len(ChildrenOf(p)))
              /\ \A i \in 1..Len(ChildrenOf(p)) :
                    chan[<<ChildrenOf(p)[i], p>>] = <<>>
        /\ \A t \in TruncationsOf(p) :
              (t.level >= 1 /\ t.level = level[p] /\ ~ InPass(p)) =>
                  t.cin = Len(Flatten(U_list[p]))

\* rank 0 is about to truncate its own factor followed by those of ranks 1
\* and 2, all of them non-empty
C23_Witness ==
    /\ pc[0] = "merge"
    /\ ChildrenOf(0) = <<1, 2>>
    /\ \A i \in 1..3 : Len(U_list[0][i]) >= 1
    /\ U_list[0][2] # U_list[0][3]

\* the truncations that added a positive e^2
Contributing == {t \in trunc_log : t.err > 0}

\* C24: in a run of hsvd with no_of_merges = 2 the number of local
\* truncations that contribute to e^2 is at most 2P - 1
C24_TruncationCount ==
    (\A p \in Procs : InDriver(p) /\ no_of_merges[p] = 2) =>
        Cardinality(Contributing) <= 2 * no_procs - 1

\* p has sent its factor and error to a parent
HasSent(p) == sent[p] # <<>>

\* p is at a position outside the exchange and the truncation of a pass
Idle(p) == pc[p] \in {"bcast", "collect", "final", "done", "capped"}

\* C25: a rank sends its factor and error at most once; from then on it is
\* not in the next active set, in every later pass it is outside the active
\* set and neither sends, receives nor truncates, it still publishes its
\* width in every pass it begins, and it returns when rank 0 has returned and
\* the run has stopped
C25_IdleProcesses ==
    \A p \in Procs :
        /\ Len(sent[p]) <= 1
        /\ HasSent(p) =>
              /\ p \notin SeqElems(future_nodes[p])
              /\ iter[p] > sent[p][1] =>
                    /\ Idle(p)
                    /\ p \notin SeqElems(active_nodes[p])
              /\ \A t \in TruncationsOf(p) : t.pass < sent[p][1]
              /\ \A q \in Procs : chan[<<q, p>>] = <<>>
              /\ Len(bc[p]) >= iter[p]
              /\ pc[p] = "collect" => Len(bc[p]) = iter[p] + 1
              /\ (Stopped /\ pc[0] = "done") =>
                    /\ pc[p] = "done"
                    /\ Len(bc[p]) = Len(bc[0])
                    /\ ret[p] = ret[0]

\* all of three processes have returned, and rank 1 took part in a pass
\* after the one in which it sent
C25_Witness ==
    /\ no_procs = 3
    /\ \A p \in Procs : pc[p] = "done"
    /\ sent[1] = <<1>>
    /\ iter[1] = 2
    /\ Len(bc[1]) = 2

\* p is inside a blocking point-to-point call
InExchange(p) == pc[p] \in {"recv_U", "recv_err", "send_U", "send_err"}

\* the next step of process p is not blocked when Send and Recv are
\* synchronous
SyncCanStep(p) ==
    CASE pc[p] \in {"call", "hsvd", "merge"} -> TRUE
      [] pc[p] = "bcast" -> \A k \in Procs : k < p => Len(bc[k]) > iter[p]
      [] pc[p] = "collect" -> \A k \in Procs : Len(bc[k]) > iter[p]
      [] pc[p] = "send_U" ->
            \/ send_to[p][p] = Unset
            \/ LET d == send_to[p][p]
               IN pc[d] = "recv_U" /\ recv_from[d][d][rk[d] + 1] = p
      [] pc[p] = "send_err" ->
            LET d == send_to[p][p]
            IN pc[d] = "recv_err" /\ recv_from[d][d][rk[d] + 1] = p
      [] pc[p] = "recv_U" ->
            LET src == recv_from[p][p][rk[p] + 1]
            IN pc[src] = "send_U" /\ send_to[src][src] = p
      [] pc[p] = "recv_err" ->
            LET src == recv_from[p][p][rk[p] + 1]
            IN pc[src] = "send_err" /\ send_to[src][src] = p
      [] pc[p] = "final" -> p = 0 \/ final # <<>>
      [] OTHER -> FALSE

SyncStopped == \A p \in Procs : ~ SyncCanStep(p)

\* C26: with synchronous Send and Recv every sending child has a parent that
\* lists it in its receive list, every receiving parent lists only children
\* that send to it, no Send fails, and no run stops with a process still
\* inside a Send or a Recv
C26_DeadlockFreedom ==
    \A p \in Procs :
        /\ raised[p] # "send"
        /\ pc[p] \in {"send_U", "send_err"} =>
              /\ send_to[p][p] # Unset
              /\ p \in SeqElems(recv_from[p][send_to[p][p]])
        /\ pc[p] \in {"recv_U", "recv_err"} =>
              \A k \in 1..Len(recv_from[p][p]) :
                  send_to[p][recv_from[p][p][k]] = p
        /\ SyncStopped => ~ InExchange(p)

\* the exchange of every child that has a parent: both sides agree on it and
\* no run stops inside it
MatchedExchange ==
    \A p \in Procs :
        /\ (pc[p] \in {"send_U", "send_err"} /\ send_to[p][p] # Unset) =>
              p \in SeqElems(recv_from[p][send_to[p][p]])
        /\ pc[p] \in {"recv_U", "recv_err"} =>
              \A k \in 1..Len(recv_from[p][p]) :
                  send_to[p][recv_from[p][p][k]] = p
        /\ SyncStopped => ~ InExchange(p)

\* p has ended the pass of its latest plan
PassEnded(p) == pc[p] \in {"bcast", "collect", "final", "done", "capped"}

\* p and q hold the same plan of the pass they are both in
SamePlan(p, q) ==
    /\ dims_global[p] = dims_global[q]
    /\ future_nodes[p] = future_nodes[q]
    /\ send_to[p] = send_to[q]
    /\ recv_from[p] = recv_from[q]

\* p and q leave the pass with the same loop state
SameLoopState(p, q) ==
    /\ finished[p] = finished[q]
    /\ active_nodes[p] = active_nodes[q]

\* the collectives process p has entered: its width broadcasts and whether
\* it has made the final broadcasts
Collectives(p) == <<Len(bc[p]), pc[p] = "done">>

\* C27: two processes in the same pass hold the same widths, future nodes,
\* send_to and recv_from, and leave it with the same finished flag and
\* active set; when the run has stopped all processes have made the same
\* number of passes and entered the same collectives
C27_ReplicatedControl ==
    \A p, q \in Procs :
        /\ iter[p] = iter[q] =>
              /\ SamePlan(p, q)
              /\ (PassEnded(p) /\ PassEnded(q)) => SameLoopState(p, q)
        /\ Stopped =>
              /\ iter[p] = iter[q]
              /\ Collectives(p) = Collectives(q)

\* the replicated plan and loop state alone
ReplicatedPlan ==
    \A p, q \in Procs :
        iter[p] = iter[q] =>
            /\ SamePlan(p, q)
            /\ (PassEnded(p) /\ PassEnded(q)) => SameLoopState(p, q)

\* the passes and collectives agree in every run in which no Send fails
SameCollectivesUnlessSendFails ==
    (Stopped /\ \A p \in Procs : raised[p] # "send") =>
        \A p, q \in Procs :
            /\ iter[p] = iter[q]
            /\ Collectives(p) = Collectives(q)

\* the ranks a, a + 1, ..., b - 1 in ascending order
RankRange(a, b) == [i \in 1..(b - a) |-> a + i - 1]

\* the nodes that are active once p has ended its pass: active_nodes, or the
\* single future node when the loop has finished (lines 408-411)
ActiveAfter(p) == IF finished[p] THEN future_nodes[p] ELSE active_nodes[p]

\* the first rank above r in the sequence of nodes s, no_procs if none
NextIn(s, r) == SetMin({q \in SeqElems(s) : q > r} \cup {no_procs})

\* every width published so far is positive
AllWidthsPositive ==
    \A k \in Procs : \A i \in 1..Len(bc[k]) : bc[k][i] > 0

\* the groups of p's plan are the contiguous runs of the active set that
\* begin at the future nodes, and an active rank that has ended its pass
\* holds the blocks from itself up to the next active rank in ascending order
Coverage(p) ==
    /\ InPass(p) =>
          \A f \in SeqElems(future_nodes[p]) :
              Group(p, f) = {a \in SeqElems(active_nodes[p]) :
                                f <= a /\ a < NextIn(future_nodes[p], f)}
    /\ (PassEnded(p) /\ p \in SeqElems(ActiveAfter(p))) =>
          covers[p] = RankRange(p, NextIn(ActiveAfter(p), p))
    /\ pc[p] = "done" => covers[p] = RankRange(0, no_procs)

\* C28: each group is a contiguous run of the active set led by its lowest
\* rank, an active rank holds the original blocks from itself up to the next
\* active rank in ascending order, and the final factor covers every block
\* 0..P-1 exactly once
C28_InputCoverage == \A p \in Procs : Coverage(p)

\* the coverage in the runs in which no rank has published the width 0
CoverageOfPositiveWidths ==
    AllWidthsPositive => \A p \in Procs : Coverage(p)

\* the width kept by the truncation t is at most maxrank + safetyshift
WithinRankBudget(t) == t.cout <= maxrank[t.proc] + call.safetyshift

\* the truncation t keeps no more columns than the matrix it was given has
NotWider(t) == t.cout <= t.cin

\* a truncation to a rank keeps at least one column
AtLeastOne(t) ==
    (loctol[t.proc] = NoLoctol /\ maxrank[t.proc] >= 1) => t.cout >= 1

\* C29: the width left by every truncation, which is the width its rank
\* publishes next, is at most maxrank + safetyshift and at most the width of
\* the truncated matrix, and at least 1 when truncating to a rank >= 1
C29_WidthBound ==
    /\ \A t \in trunc_log :
          /\ WithinRankBudget(t)
          /\ NotWider(t)
          /\ AtLeastOne(t)
    /\ \A k \in Procs : \A i \in 1..Len(bc[k]) :
          bc[k][i] <= maxrank[k] + call.safetyshift

\* the width bound of every truncation of a matrix that has a column
WidthBoundOfNonEmpty ==
    \A t \in trunc_log :
        /\ WithinRankBudget(t)
        /\ AtLeastOne(t)
        /\ t.cin >= 1 => NotWider(t)

====
